---------------------------- MODULE Spec2Model ----------------------------
(***************************************************************************)
(* The expression evaluator of wasm-interpreter/src/lib.rs, run in the     *)
(* 32-bit-integer lane (impl Interpreter<u32> for Program).                *)
(*                                                                         *)
(* interpret_expr is a recursive function; here its activations are the    *)
(* frames of `stack`, and every match arm is cut into the steps between    *)
(* its recursive calls.                                                    *)
(*                                                                         *)
(* A u32 is kept at its real width.  TLC's integers stop at 2^31 - 1, so a *)
(* u32 is the record [hi, lo] of its two 16-bit halves and a u64 local     *)
(* slot is the record [upper, lower] of two u32.                           *)
(***************************************************************************)
EXTENDS Integers, Sequences, FiniteSets, TLC

(***************************************************************************)
(* Bounds of the model.                                                    *)
(***************************************************************************)
\* the caller's register file has NumLocals slots
NumLocals == 2
\* the caller's heap is 0 .. MaxWords four-byte words long
MaxWords == 2
\* the longest heap the model represents; growing beyond it fails to allocate
HeapCap == 40

(***************************************************************************)
(* u32 and u64 values.                                                     *)
(***************************************************************************)
Half == 2^16

U32(hi, lo) == [hi |-> hi, lo |-> lo]

IsU32(v) == v.hi \in 0..(Half - 1) /\ v.lo \in 0..(Half - 1)

Zero == U32(0, 0)

One == U32(0, 1)

\* a small natural number as a u32 (`heap.len() as u32`, `(a == b) as u32`)
AsU32(n) == U32(n \div Half, n % Half)

BoolU32(b) == IF b THEN One ELSE Zero

\* i32::MIN and -1 as the u32 bit patterns `as i32` reads them from
I32Min == U32(2^15, 0)

MinusOne == U32(Half - 1, Half - 1)

\* the sign bit that `as i32` reads
IsNeg(v) == v.hi >= 2^15

U64(upper, lower) == [upper |-> upper, lower |-> lower]

(***************************************************************************)
(* The u32 primitives that interpret_binop and interpret_unop call.        *)
(***************************************************************************)
\* a variant of wrapping_add that clamps at u32::MAX instead of wrapping
saturating_add(l, r) ==
    LET s == l.lo + r.lo
        h == l.hi + r.hi + (s \div Half)
    IN  IF h >= Half THEN U32(Half - 1, Half - 1) ELSE U32(h, s % Half)

wrapping_add(l, r) ==
    LET s == l.lo + r.lo
    IN  U32((l.hi + r.hi + (s \div Half)) % Half, s % Half)

wrapping_sub(l, r) ==
    LET borrow == IF l.lo < r.lo THEN 1 ELSE 0
    IN  U32((l.hi - r.hi - borrow + 2 * Half) % Half, (l.lo - r.lo + Half) % Half)

\* the exact 32-bit product of two 16-bit numbers
Mul16(x, y) ==
    LET p0 == (x % 256) * y
        p1 == (x \div 256) * y
        t  == p0 + (p1 % 256) * 256
    IN  U32((p1 \div 256) + (t \div Half), t % Half)

wrapping_mul(l, r) ==
    LET ll == Mul16(l.lo, r.lo)
    IN  U32((ll.hi + Mul16(l.hi, r.lo).lo + Mul16(l.lo, r.hi).lo) % Half, ll.lo)

RECURSIVE And16(_, _)
And16(x, y) ==
    IF x = 0 \/ y = 0 THEN 0
    ELSE (x % 2) * (y % 2) + 2 * And16(x \div 2, y \div 2)

RECURSIVE Or16(_, _)
Or16(x, y) ==
    IF x = 0 THEN y
    ELSE IF y = 0 THEN x
    ELSE (IF x % 2 = 1 \/ y % 2 = 1 THEN 1 ELSE 0) + 2 * Or16(x \div 2, y \div 2)

RECURSIVE Xor16(_, _)
Xor16(x, y) ==
    IF x = 0 THEN y
    ELSE IF y = 0 THEN x
    ELSE ((x + y) % 2) + 2 * Xor16(x \div 2, y \div 2)

BitAnd(l, r) == U32(And16(l.hi, r.hi), And16(l.lo, r.lo))

BitOr(l, r) == U32(Or16(l.hi, r.hi), Or16(l.lo, r.lo))

BitXor(l, r) == U32(Xor16(l.hi, r.hi), Xor16(l.lo, r.lo))

LtU(l, r) == l.hi < r.hi \/ (l.hi = r.hi /\ l.lo < r.lo)

LeU(l, r) == ~LtU(r, l)

\* comparison of the operands read `as i32`
LtS(l, r) == IF IsNeg(l) # IsNeg(r) THEN IsNeg(l) ELSE LtU(l, r)

LeS(l, r) == ~LtS(r, l)

\* v << k and v >> k for 0 <= k < 32, bits shifted out are dropped
ShlBy(v, k) ==
    IF k >= 16 THEN U32((v.lo * 2^(k - 16)) % Half, 0)
    ELSE U32(((v.hi * 2^k) % Half) + (v.lo \div 2^(16 - k)), (v.lo * 2^k) % Half)

ShrBy(v, k) ==
    IF k >= 16 THEN U32(0, v.hi \div 2^(k - 16))
    ELSE U32(v.hi \div 2^k, (v.lo \div 2^k) + ((v.hi % 2^k) * 2^(16 - k)))

BitNot(v) == U32(Half - 1 - v.hi, Half - 1 - v.lo)

\* the arithmetic shift of an i32: the sign bit fills the vacated bits
SarBy(v, k) == IF IsNeg(v) THEN BitNot(ShrBy(BitNot(v), k)) ELSE ShrBy(v, k)

RotlBy(v, k) ==
    IF k = 0 THEN v
    ELSE U32(ShlBy(v, k).hi + ShrBy(v, 32 - k).hi, ShlBy(v, k).lo + ShrBy(v, 32 - k).lo)

RotrBy(v, k) == RotlBy(v, (32 - k) % 32)

\* the shift amount is taken modulo the width: rhs & 31
wrapping_shl(l, r) == ShlBy(l, r.lo % 32)

wrapping_shr(l, r) == ShrBy(l, r.lo % 32)

\* (lhs as i32).wrapping_shr(rhs) as u32
wrapping_shr_i32(l, r) == SarBy(l, r.lo % 32)

rotate_left(l, r) == RotlBy(l, r.lo % 32)

rotate_right(l, r) == RotrBy(l, r.lo % 32)

\* Restoring long division, one bit of the dividend per step: n is shifted
\* left, its top bit enters the remainder r, and the quotient bit enters n
\* at the bottom, so that after 32 steps n is the quotient.
RECURSIVE DivLoop(_, _, _, _)
DivLoop(n, d, r, i) ==
    IF i = 0 THEN [q |-> n, r |-> r]
    ELSE LET r1 == U32(ShlBy(r, 1).hi, ShlBy(r, 1).lo + (n.hi \div 2^15))
             n1 == ShlBy(n, 1)
         IN  IF r.hi >= 2^15 \/ ~LtU(r1, d)
             THEN DivLoop(U32(n1.hi, n1.lo + 1), d, wrapping_sub(r1, d), i - 1)
             ELSE DivLoop(n1, d, r1, i - 1)

\* u32 `/` and `%` for a non-zero divisor
DivU32(l, r) == DivLoop(l, r, Zero, 32).q

RemU32(l, r) == DivLoop(l, r, Zero, 32).r

Neg(v) == wrapping_sub(Zero, v)

\* the magnitude of the operand read `as i32`
Magnitude(v) == IF IsNeg(v) THEN Neg(v) ELSE v

\* i32 `/` and `%` for a non-zero divisor and no overflow: truncation toward zero
DivI32(l, r) ==
    LET q == DivU32(Magnitude(l), Magnitude(r))
    IN  IF IsNeg(l) # IsNeg(r) THEN Neg(q) ELSE q

RemI32(l, r) ==
    LET m == RemU32(Magnitude(l), Magnitude(r))
    IN  IF IsNeg(l) THEN Neg(m) ELSE m

RECURSIVE Ones16(_)
Ones16(x) == IF x = 0 THEN 0 ELSE (x % 2) + Ones16(x \div 2)

RECURSIVE Lead16(_, _)
Lead16(x, n) == IF n = 0 \/ x >= 2^15 THEN 0 ELSE 1 + Lead16((x * 2) % Half, n - 1)

RECURSIVE Trail16(_, _)
Trail16(x, n) == IF n = 0 \/ x % 2 = 1 THEN 0 ELSE 1 + Trail16(x \div 2, n - 1)

leading_zeros(v) == AsU32(IF v.hi = 0 THEN 16 + Lead16(v.lo, 16) ELSE Lead16(v.hi, 16))

trailing_zeros(v) == AsU32(IF v.lo = 0 THEN 16 + Trail16(v.hi, 16) ELSE Trail16(v.lo, 16))

count_ones(v) == AsU32(Ones16(v.hi) + Ones16(v.lo))

(***************************************************************************)
(* Results of an operation that may panic.                                 *)
(***************************************************************************)
Ok(v) == [ok |-> TRUE, val |-> v, err |-> "none"]

Err(msg) == [ok |-> FALSE, val |-> Zero, err |-> msg]

(***************************************************************************)
(* impl Interpreter<u32> for Program, with the default methods of the      *)
(* trait that it does not override.                                        *)
(***************************************************************************)
BinOps ==
    {"Add", "And", "DivU", "DivS", "Eq", "GeS", "GeU", "GtS", "GtU", "LeS", "LeU",
     "LtS", "LtU", "Mul", "Ne", "Or", "RemS", "RemU", "RotL", "RotR", "Shl", "ShrS",
     "ShrU", "Sub", "Xor"}

UnaryOps == {"Clz", "Ctz", "Popcnt", "Eqz"}

\* `/` and `%` panic on a zero divisor, and the i32 ones on i32::MIN / -1 too
interpret_binop(op, lhs, rhs) ==
    CASE op = "Add"  -> Ok(wrapping_add(lhs, rhs))
      [] op = "And"  -> Ok(BitAnd(lhs, rhs))
      [] op = "DivU" -> IF rhs = Zero THEN Err("divide_by_zero") ELSE Ok(DivU32(lhs, rhs))
      [] op = "DivS" -> IF rhs = Zero THEN Err("divide_by_zero")
                        ELSE IF lhs = I32Min /\ rhs = MinusOne THEN Err("overflow")
                        ELSE Ok(DivI32(lhs, rhs))
      [] op = "Eq"   -> Ok(BoolU32(lhs = rhs))
      [] op = "GeS"  -> Ok(BoolU32(LeS(rhs, lhs)))
      [] op = "GeU"  -> Ok(BoolU32(LeU(rhs, lhs)))
      [] op = "GtS"  -> Ok(BoolU32(LtS(rhs, lhs)))
      [] op = "GtU"  -> Ok(BoolU32(LtU(rhs, lhs)))
      [] op = "LeS"  -> Ok(BoolU32(LeS(lhs, rhs)))
      [] op = "LeU"  -> Ok(BoolU32(LeU(lhs, rhs)))
      [] op = "LtS"  -> Ok(BoolU32(LtS(lhs, rhs)))
      [] op = "LtU"  -> Ok(BoolU32(LtU(lhs, rhs)))
      [] op = "Mul"  -> Ok(wrapping_mul(lhs, rhs))
      [] op = "Ne"   -> Ok(BoolU32(lhs # rhs))
      [] op = "Or"   -> Ok(BitOr(lhs, rhs))
      [] op = "RemS" -> IF rhs = Zero THEN Err("divide_by_zero")
                        ELSE IF lhs = I32Min /\ rhs = MinusOne THEN Err("overflow")
                        ELSE Ok(RemI32(lhs, rhs))
      [] op = "RemU" -> IF rhs = Zero THEN Err("divide_by_zero") ELSE Ok(RemU32(lhs, rhs))
      [] op = "RotL" -> Ok(rotate_left(lhs, rhs))
      [] op = "RotR" -> Ok(rotate_right(lhs, rhs))
      [] op = "Shl"  -> Ok(wrapping_shl(lhs, rhs))
      [] op = "ShrS" -> Ok(wrapping_shr_i32(lhs, rhs))
      [] op = "ShrU" -> Ok(wrapping_shr(lhs, rhs))
      [] op = "Sub"  -> Ok(wrapping_sub(lhs, rhs))
      [] op = "Xor"  -> Ok(BitXor(lhs, rhs))

interpret_unop(op, arg) ==
    CASE op = "Clz"    -> leading_zeros(arg)
      [] op = "Ctz"    -> trailing_zeros(arg)
      [] op = "Popcnt" -> count_ones(arg)
      [] op = "Eqz"    -> BoolU32(arg = Zero)

\* a variant of from_f32 that reinterprets the float's bits instead of panicking
from_f32_bits(value) == [ok |-> TRUE, val |-> value, err |-> "none"]

\* the trait's defaults: panic!("Type error.")
from_f32(value) == Err("type_error")

from_f64(value) == Err("type_error")

from_i64(value) == Err("type_error")

\* overridden by the u32 lane
from_i32(value) == Ok(value)

\* value as u32: the upper 32 bits are dropped
from_raw(value) == value.lower

\* a variant of to_raw that widens through i32: value as i32 as u64
to_raw_signed(value) == [upper |-> IF value.hi >= 2^15 THEN [hi |-> Half - 1, lo |-> Half - 1] ELSE Zero,
                         lower |-> value]

\* value as u64: zero extension
to_raw(value) == U64(Zero, value)

\* T::default() for T = u32
Default == Zero

(***************************************************************************)
(* byteorder's LittleEndian over the heap, a sequence of bytes.  Byte      *)
(* offset a of the heap is heap[a + 1].                                    *)
(***************************************************************************)
\* a variant of InBounds that is off by one at the end of the heap
InBoundsStrict(addr, size, len) == addr.hi = 0 /\ addr.lo + size < len

\* heap[addr as usize..] holds at least `size` bytes.  Every heap of the
\* model is shorter than 2^16 bytes, so an address with a non-zero upper
\* half is past the end.
InBounds(addr, size, len) == addr.hi = 0 /\ addr.lo + size <= len

read_u32(h, addr) ==
    U32(h[addr.lo + 3] + 256 * h[addr.lo + 4], h[addr.lo + 1] + 256 * h[addr.lo + 2])

read_u64(h, addr) ==
    U64(read_u32(h, U32(0, addr.lo + 4)), read_u32(h, addr))

\* a variant of write_u32 in BigEndian order
write_u32_be(h, addr, value) ==
    [i \in DOMAIN h |->
        IF i = addr.lo + 1 THEN value.hi \div 256
        ELSE IF i = addr.lo + 2 THEN value.hi % 256
        ELSE IF i = addr.lo + 3 THEN value.lo \div 256
        ELSE IF i = addr.lo + 4 THEN value.lo % 256
        ELSE h[i]]

write_u32(h, addr, value) ==
    [i \in DOMAIN h |->
        IF i = addr.lo + 1 THEN value.lo % 256
        ELSE IF i = addr.lo + 2 THEN value.lo \div 256
        ELSE IF i = addr.lo + 3 THEN value.hi % 256
        ELSE IF i = addr.lo + 4 THEN value.hi \div 256
        ELSE h[i]]

\* repeat(0).take(n)
Zeros(n) == [i \in 1..n |-> 0]

\* heap.extend(..) can allocate `ext` more bytes
CanExtend(h, ext) == ext.hi = 0 /\ Len(h) + ext.lo <= HeapCap

(***************************************************************************)
(* wasm_ast::Expr: the nodes that interpret_expr matches.                  *)
(***************************************************************************)
BinOpExpr(typ, op, lhs, rhs) ==
    [kind |-> "BinOpExpr", typ |-> typ, op |-> op, lhs |-> lhs, rhs |-> rhs]

ConstExpr(const) == [kind |-> "ConstExpr", const |-> const]

F32Const(bits) == [tag |-> "F32Const", value |-> bits]

F64Const(bits) == [tag |-> "F64Const", value |-> bits]

I32Const(value) == [tag |-> "I32Const", value |-> value]

I64Const(value) == [tag |-> "I64Const", value |-> value]

Var(position) == [position |-> position]

GetLocalExpr(var) == [kind |-> "GetLocalExpr", var |-> var]

GrowMemoryExpr(ext) == [kind |-> "GrowMemoryExpr", ext |-> ext]

IfThenExpr(cond, true_branch) ==
    [kind |-> "IfThenExpr", cond |-> cond, true_branch |-> true_branch]

IfThenElseExpr(cond, true_branch, false_branch) ==
    [kind |-> "IfThenElseExpr", cond |-> cond, true_branch |-> true_branch,
     false_branch |-> false_branch]

LoadExpr(typ, addr) == [kind |-> "LoadExpr", typ |-> typ, addr |-> addr]

NopExpr == [kind |-> "NopExpr"]

SetLocalExpr(var, value) == [kind |-> "SetLocalExpr", var |-> var, value |-> value]

StoreExpr(typ, addr, value) ==
    [kind |-> "StoreExpr", typ |-> typ, addr |-> addr, value |-> value]

UnaryOpExpr(typ, op, arg) == [kind |-> "UnaryOpExpr", typ |-> typ, op |-> op, arg |-> arg]

(***************************************************************************)
(* The inputs of the model: the trees, register files and heaps a caller   *)
(* passes to interpret_expr.                                               *)
(***************************************************************************)
Typs == {"F32", "F64", "I32", "I64"}

Const(v) == ConstExpr(I32Const(v))

\* operands at the edges of the u32 and i32 ranges, one that carries from the
\* lower half into the upper half, and 0x12345678
Operands == {Zero, One, U32(1, Half - 1), U32(4660, 22136), I32Min, MinusOne}

\* byte offsets at, across and past the end of the heaps below
Addrs == {Zero, One, U32(0, 4), U32(0, 5), MinusOne}

\* a value with four different bytes, and all bits set
Stored == {U32(258, 772), MinusOne}

\* register indexes: the first, the last, and one past the last
InRangePositions == {0, NumLocals - 1}

Positions == InRangePositions \cup {NumLocals}

Leaves ==
    {Const(v) : v \in Operands \cup Addrs}
        \cup {ConstExpr(F32Const(One)), ConstExpr(F64Const(U64(Zero, One))),
              ConstExpr(I64Const(U64(Zero, One))), NopExpr}
        \cup {GetLocalExpr(Var(p)) : p \in Positions}

Arith == {BinOpExpr("I32", op, Const(a), Const(b)) : op \in BinOps, a \in Operands, b \in Operands}

Unary ==
    {UnaryOpExpr("I32", op, Const(a)) : op \in UnaryOps, a \in Operands}
        \cup {UnaryOpExpr("I32", op, GetLocalExpr(Var(0))) : op \in UnaryOps}

Stores == {StoreExpr("I32", Const(a), Const(v)) : a \in Addrs, v \in Stored}

Sets == {SetLocalExpr(Var(p), Const(v)) : p \in Positions, v \in {U32(0, 9), MinusOne}}

Grows == {GrowMemoryExpr(Const(n)) : n \in {Zero, One, U32(0, 4), MinusOne}}

Loads == {LoadExpr(t, Const(a)) : t \in Typs, a \in Addrs}

\* a size delta, an address or a stored value that has effects of its own
Nested ==
    {GrowMemoryExpr(g) : g \in Grows \cup {GetLocalExpr(Var(0)), LoadExpr("I32", Const(Zero))}}
        \cup {StoreExpr("I32", a, v) :
                a \in {Const(U32(0, 4)), GrowMemoryExpr(Const(U32(0, 4))),
                       SetLocalExpr(Var(0), Const(U32(0, 4)))},
                v \in {GrowMemoryExpr(Const(U32(0, 4))), GetLocalExpr(Var(0)),
                       LoadExpr("I32", Const(Zero))}}
        \cup {SetLocalExpr(Var(p), v) :
                p \in InRangePositions,
                v \in {GetLocalExpr(Var(0)), GrowMemoryExpr(Const(One)),
                       SetLocalExpr(Var(0), Const(U32(0, 9)))}}
        \cup {LoadExpr("I32", a) :
                a \in {GrowMemoryExpr(Const(U32(0, 4))), GetLocalExpr(Var(0))}}

\* operands whose effects a later sibling can observe
Sequenced ==
    {SetLocalExpr(Var(p), Const(v)) : p \in InRangePositions, v \in {U32(0, 9), MinusOne}}
        \cup {GetLocalExpr(Var(p)) : p \in InRangePositions}
        \cup {StoreExpr("I32", Const(a), Const(U32(258, 772))) : a \in {Zero, U32(0, 4)}}
        \cup {LoadExpr("I32", Const(a)) : a \in {Zero, U32(0, 4)}}
        \cup {GrowMemoryExpr(Const(U32(0, 4)))}

Siblings == {BinOpExpr("I32", op, l, r) : op \in {"Add", "Sub"}, l \in Sequenced, r \in Sequenced}

\* conditions that are zero or not, with and without effects
Conds ==
    {Const(Zero), Const(One), Const(I32Min), SetLocalExpr(Var(0), Const(Zero)),
     GrowMemoryExpr(Const(One))}

Branches ==
    {StoreExpr("I32", Const(Zero), Const(U32(258, 772))), SetLocalExpr(Var(0), Const(U32(0, 9))),
     GrowMemoryExpr(Const(U32(0, 4))), Const(U32(0, 5))}

Conditionals ==
    {IfThenExpr(c, t) : c \in Conds, t \in Branches}
        \cup {IfThenElseExpr(c, t, f) : c \in Conds, t \in Branches, f \in Branches}

Programs ==
    Leaves \cup Arith \cup Unary \cup Stores \cup Sets \cup Grows \cup Loads
        \cup Nested \cup Siblings \cup Conditionals

\* a slot with a clear upper half and one with every byte different
SlotValues == {U64(Zero, U32(0, 7)), U64(U32(1, 2), U32(3, 4))}

LocalFiles == [1..NumLocals -> SlotValues]

\* byte offset a holds 17 * (a + 1): 11, 22, 33, .. in hexadecimal
Pattern(n) == [i \in 1..n |-> (17 * i) % 256]

Heaps == {Pattern(4 * w) : w \in 0..MaxWords}

(***************************************************************************)
(* The state of one call interpret_expr(expr, locals, heap).               *)
(***************************************************************************)
VARIABLES
    expr,     \* the tree the caller passed
    locals,   \* &mut [u64]; slot i is locals[i + 1]
    heap,     \* &mut Vec<u8>
    stack,    \* the activations of interpret_expr, the innermost last
    ret,      \* <<v>> when the innermost call has just returned v, else <<>>
    status    \* "running", "returned", or the panic that ended the call

vars == <<expr, locals, heap, stack, ret, status>>

\* a fresh activation; tmp is the arm's first local variable
\* (lhs, result, cond or addr) once it is bound
Frame(e) == [e |-> e, pc |-> "start", tmp |-> Zero]

Top == stack[Len(stack)]

Rest == SubSeq(stack, 1, Len(stack) - 1)

At(kind, pc) ==
    /\ status = "running"
    /\ stack # <<>>
    /\ Top.e.kind = kind
    /\ Top.pc = pc

\* self.interpret_expr(child, locals, heap) from the innermost activation
Call(pc, tmp, child) ==
    /\ stack' = Rest \o <<[Top EXCEPT !.pc = pc, !.tmp = tmp], Frame(child)>>
    /\ ret' = <<>>
    /\ status' = "running"

\* the innermost activation returns v to its caller
Return(v) ==
    /\ stack' = Rest
    /\ ret' = <<v>>
    /\ status' = IF Rest = <<>> THEN "returned" ELSE "running"

\* a panic unwinds the whole call: nothing runs after it
Panic(msg) ==
    /\ status' = msg
    /\ UNCHANGED <<stack, ret>>

Finish(r) == IF r.ok THEN Return(r.val) ELSE Panic(r.err)

\* locals[var.position] is in range
InRange(var) == var.position + 1 \in DOMAIN locals

Init ==
    /\ expr \in Programs
    /\ locals \in LocalFiles
    /\ heap \in Heaps
    /\ stack = <<Frame(expr)>>
    /\ ret = <<>>
    /\ status = "running"

(***************************************************************************)
(* interpret_expr, arm by arm.                                             *)
(***************************************************************************)
\* a variant of BinOpStart that starts with the right operand
BinOpStartRight ==
    /\ At("BinOpExpr", "start")
    /\ Call("lhs", Zero, Top.e.rhs)
    /\ UNCHANGED <<expr, locals, heap>>

BinOpStart ==
    /\ At("BinOpExpr", "start")
    /\ Call("lhs", Zero, Top.e.lhs)
    /\ UNCHANGED <<expr, locals, heap>>

BinOpLhs ==
    /\ At("BinOpExpr", "lhs")
    /\ Call("rhs", ret[1], Top.e.rhs)
    /\ UNCHANGED <<expr, locals, heap>>

BinOpRhs ==
    /\ At("BinOpExpr", "rhs")
    /\ Finish(interpret_binop(Top.e.op, Top.tmp, ret[1]))
    /\ UNCHANGED <<expr, locals, heap>>

ConstF32 ==
    /\ At("ConstExpr", "start")
    /\ Top.e.const.tag = "F32Const"
    /\ Finish(from_f32(Top.e.const.value))
    /\ UNCHANGED <<expr, locals, heap>>

ConstF64 ==
    /\ At("ConstExpr", "start")
    /\ Top.e.const.tag = "F64Const"
    /\ Finish(from_f64(Top.e.const.value))
    /\ UNCHANGED <<expr, locals, heap>>

ConstI32 ==
    /\ At("ConstExpr", "start")
    /\ Top.e.const.tag = "I32Const"
    /\ Finish(from_i32(Top.e.const.value))
    /\ UNCHANGED <<expr, locals, heap>>

ConstI64 ==
    /\ At("ConstExpr", "start")
    /\ Top.e.const.tag = "I64Const"
    /\ Finish(from_i64(Top.e.const.value))
    /\ UNCHANGED <<expr, locals, heap>>

GetLocal ==
    /\ At("GetLocalExpr", "start")
    /\ IF InRange(Top.e.var)
       THEN Return(from_raw(locals[Top.e.var.position + 1]))
       ELSE Panic("index_out_of_bounds")
    /\ UNCHANGED <<expr, locals, heap>>

\* `result` is bound before the size delta is evaluated
GrowMemoryStart ==
    /\ At("GrowMemoryExpr", "start")
    /\ Call("ext", AsU32(Len(heap)), Top.e.ext)
    /\ UNCHANGED <<expr, locals, heap>>

\* a variant of GrowMemoryExt that resizes the heap to the delta: heap.resize(ext, 0)
GrowMemoryResize ==
    /\ At("GrowMemoryExpr", "ext")
    /\ IF ret[1].hi = 0 /\ ret[1].lo <= HeapCap
       THEN /\ heap' = [i \in 1..ret[1].lo |-> IF i <= Len(heap) THEN heap[i] ELSE 0]
            /\ Finish(from_i32(Top.tmp))
       ELSE /\ Panic("out_of_memory")
            /\ UNCHANGED heap
    /\ UNCHANGED <<expr, locals>>

GrowMemoryExt ==
    /\ At("GrowMemoryExpr", "ext")
    /\ IF CanExtend(heap, ret[1])
       THEN /\ heap' = heap \o Zeros(ret[1].lo)
            /\ Finish(from_i32(Top.tmp))
       ELSE /\ Panic("out_of_memory")
            /\ UNCHANGED heap
    /\ UNCHANGED <<expr, locals>>

IfThenStart ==
    /\ At("IfThenExpr", "start")
    /\ Call("cond", Zero, Top.e.cond)
    /\ UNCHANGED <<expr, locals, heap>>

\* a variant of IfThenCond that evaluates the branch whatever the condition
IfThenCondEager ==
    /\ At("IfThenExpr", "cond")
    /\ Call("branch", ret[1], Top.e.true_branch)
    /\ UNCHANGED <<expr, locals, heap>>

IfThenCond ==
    /\ At("IfThenExpr", "cond")
    /\ IF ret[1] = Zero
       THEN Return(Default)
       ELSE Call("branch", ret[1], Top.e.true_branch)
    /\ UNCHANGED <<expr, locals, heap>>

IfThenBranch ==
    /\ At("IfThenExpr", "branch")
    /\ Return(ret[1])
    /\ UNCHANGED <<expr, locals, heap>>

IfThenElseStart ==
    /\ At("IfThenElseExpr", "start")
    /\ Call("cond", Zero, Top.e.cond)
    /\ UNCHANGED <<expr, locals, heap>>

IfThenElseCond ==
    /\ At("IfThenElseExpr", "cond")
    /\ IF ret[1] = Zero
       THEN Call("branch", ret[1], Top.e.false_branch)
       ELSE Call("branch", ret[1], Top.e.true_branch)
    /\ UNCHANGED <<expr, locals, heap>>

IfThenElseBranch ==
    /\ At("IfThenElseExpr", "branch")
    /\ Return(ret[1])
    /\ UNCHANGED <<expr, locals, heap>>

LoadStart ==
    /\ At("LoadExpr", "start")
    /\ Call("addr", Zero, Top.e.addr)
    /\ UNCHANGED <<expr, locals, heap>>

LoadF32 ==
    /\ At("LoadExpr", "addr")
    /\ Top.e.typ = "F32"
    /\ IF InBounds(ret[1], 4, Len(heap))
       THEN Finish(from_f32(read_u32(heap, ret[1])))
       ELSE Panic("out_of_bounds")
    /\ UNCHANGED <<expr, locals, heap>>

LoadF64 ==
    /\ At("LoadExpr", "addr")
    /\ Top.e.typ = "F64"
    /\ IF InBounds(ret[1], 8, Len(heap))
       THEN Finish(from_f64(read_u64(heap, ret[1])))
       ELSE Panic("out_of_bounds")
    /\ UNCHANGED <<expr, locals, heap>>

LoadI32 ==
    /\ At("LoadExpr", "addr")
    /\ Top.e.typ = "I32"
    /\ IF InBounds(ret[1], 4, Len(heap))
       THEN Finish(from_i32(read_u32(heap, ret[1])))
       ELSE Panic("out_of_bounds")
    /\ UNCHANGED <<expr, locals, heap>>

LoadI64 ==
    /\ At("LoadExpr", "addr")
    /\ Top.e.typ = "I64"
    /\ IF InBounds(ret[1], 8, Len(heap))
       THEN Finish(from_i64(read_u64(heap, ret[1])))
       ELSE Panic("out_of_bounds")
    /\ UNCHANGED <<expr, locals, heap>>

Nop ==
    /\ At("NopExpr", "start")
    /\ Return(Default)
    /\ UNCHANGED <<expr, locals, heap>>

SetLocalStart ==
    /\ At("SetLocalExpr", "start")
    /\ Call("value", Zero, Top.e.value)
    /\ UNCHANGED <<expr, locals, heap>>

SetLocalValue ==
    /\ At("SetLocalExpr", "value")
    /\ IF InRange(Top.e.var)
       THEN /\ locals' = [locals EXCEPT ![Top.e.var.position + 1] = to_raw(ret[1])]
            /\ Return(ret[1])
       ELSE /\ Panic("index_out_of_bounds")
            /\ UNCHANGED locals
    /\ UNCHANGED <<expr, heap>>

\* StoreExpr(I32, ..).  The arms for F32, F64 and I64 evaluate the value in a
\* lane that Program does not implement in this file.
StoreStart ==
    /\ At("StoreExpr", "start")
    /\ Top.e.typ = "I32"
    /\ Call("addr", Zero, Top.e.addr)
    /\ UNCHANGED <<expr, locals, heap>>

StoreAddr ==
    /\ At("StoreExpr", "addr")
    /\ Call("value", ret[1], Top.e.value)
    /\ UNCHANGED <<expr, locals, heap>>

StoreValue ==
    /\ At("StoreExpr", "value")
    /\ IF InBounds(Top.tmp, 4, Len(heap))
       THEN /\ heap' = write_u32(heap, Top.tmp, ret[1])
            /\ Finish(from_i32(ret[1]))
       ELSE /\ Panic("out_of_bounds")
            /\ UNCHANGED heap
    /\ UNCHANGED <<expr, locals>>

UnaryOpStart ==
    /\ At("UnaryOpExpr", "start")
    /\ Call("arg", Zero, Top.e.arg)
    /\ UNCHANGED <<expr, locals, heap>>

UnaryOpArg ==
    /\ At("UnaryOpExpr", "arg")
    /\ Return(interpret_unop(Top.e.op, ret[1]))
    /\ UNCHANGED <<expr, locals, heap>>

Next ==
    \/ BinOpStart \/ BinOpLhs \/ BinOpRhs
    \/ ConstF32 \/ ConstF64 \/ ConstI32 \/ ConstI64
    \/ GetLocal
    \/ GrowMemoryStart \/ GrowMemoryExt
    \/ IfThenStart \/ IfThenCond \/ IfThenBranch
    \/ IfThenElseStart \/ IfThenElseCond \/ IfThenElseBranch
    \/ LoadStart \/ LoadF32 \/ LoadF64 \/ LoadI32 \/ LoadI64
    \/ Nop
    \/ SetLocalStart \/ SetLocalValue
    \/ StoreStart \/ StoreAddr \/ StoreValue
    \/ UnaryOpStart \/ UnaryOpArg

Spec == Init /\ [][Next]_vars

(***************************************************************************)
(* Vocabulary of the properties.                                           *)
(***************************************************************************)
Active == status = "running" /\ stack # <<>>

\* the step taken does not panic: the node of the innermost activation completes
Completes == status' \in {"running", "returned"}

IsIf(e) == e.kind \in {"IfThenExpr", "IfThenElseExpr"}

\* the branch of a conditional that a condition value selects, if any
Taken(e, c) ==
    IF c # Zero THEN <<e.true_branch>>
    ELSE IF e.kind = "IfThenElseExpr" THEN <<e.false_branch>>
    ELSE <<>>

\* the four bytes of a u32, least significant first
Bytes(v) == <<v.lo % 256, v.lo \div 256, v.hi % 256, v.hi \div 256>>

\* Natural numbers of any size as sequences of base-256 digits, least
\* significant first, with exact (unbounded) addition and multiplication.
RECURSIVE NatAdd(_, _, _)
NatAdd(x, y, c) ==
    IF x = <<>> /\ y = <<>> THEN (IF c = 0 THEN <<>> ELSE <<c>>)
    ELSE LET a == IF x = <<>> THEN 0 ELSE Head(x)
             b == IF y = <<>> THEN 0 ELSE Head(y)
         IN  <<(a + b + c) % 256>>
                 \o NatAdd(IF x = <<>> THEN x ELSE Tail(x), IF y = <<>> THEN y ELSE Tail(y),
                           (a + b + c) \div 256)

RECURSIVE NatMulDigit(_, _, _)
NatMulDigit(x, d, c) ==
    IF x = <<>> THEN (IF c = 0 THEN <<>> ELSE <<c>>)
    ELSE <<(Head(x) * d + c) % 256>> \o NatMulDigit(Tail(x), d, (Head(x) * d + c) \div 256)

RECURSIVE NatMul(_, _)
NatMul(x, y) ==
    IF y = <<>> THEN <<>>
    ELSE NatAdd(NatMulDigit(x, Head(y), 0), <<0>> \o NatMul(x, Tail(y)), 0)

\* n mod 2^32: the four lowest digits
Mod2p32(n) == [i \in 1..4 |-> IF i <= Len(n) THEN n[i] ELSE 0]

\* the u32 k for a small natural number k
Small(k) == U32(0, k)

\* a + size <= len, for a u32 a and a heap length len
Fits(a, size, len) == \E k \in 0..(len - size) : a = Small(k)

\* nodes built only from constants, read-local, no-op, load, unary and binary operations
RECURSIVE Pure(_)
Pure(e) ==
    CASE e.kind \in {"ConstExpr", "GetLocalExpr", "NopExpr"} -> TRUE
      [] e.kind = "LoadExpr" -> Pure(e.addr)
      [] e.kind = "UnaryOpExpr" -> Pure(e.arg)
      [] e.kind = "BinOpExpr" -> Pure(e.lhs) /\ Pure(e.rhs)
      [] OTHER -> FALSE

\* the innermost activation is a binary operation whose two operands, of the
\* kinds given, have both returned
BothDone(lkind, rkind) ==
    /\ At("BinOpExpr", "rhs")
    /\ Top.e.lhs.kind = lkind
    /\ Top.e.rhs.kind = rkind

(***************************************************************************)
(* C1.  Conditional short-circuit.  An activation of ifThen or ifThenElse  *)
(* calls its condition once, from its start; with the condition's value c  *)
(* in hand it calls only the branch c selects (the then-branch when c is   *)
(* not zero, the else-branch when c is zero), and when c is zero and there *)
(* is no else-branch it returns 0 at once, leaving locals and heap as the  *)
(* condition left them.  No activation of the untaken branch ever exists.  *)
(***************************************************************************)
C1_OnlyTakenBranchOnStack ==
    \A i \in 1..(Len(stack) - 1) :
        IsIf(stack[i].e) =>
            /\ stack[i].pc \in {"cond", "branch"}
            /\ stack[i].pc = "cond" => stack[i + 1].e = stack[i].e.cond
            /\ stack[i].pc = "branch" => <<stack[i + 1].e>> = Taken(stack[i].e, stack[i].tmp)

C1_ConditionalStep ==
    (Active /\ IsIf(Top.e)) =>
        /\ UNCHANGED <<locals, heap>>
        /\ Top.pc = "start" =>
              stack' = Rest \o <<[Top EXCEPT !.pc = "cond"], Frame(Top.e.cond)>>
        /\ (Top.pc = "cond" /\ Taken(Top.e, ret[1]) = <<>>) =>
              /\ stack' = Rest
              /\ ret' = <<Zero>>
              /\ Completes
        /\ (Top.pc = "cond" /\ Taken(Top.e, ret[1]) # <<>>) =>
              stack' = Rest \o <<[Top EXCEPT !.pc = "branch", !.tmp = ret[1]],
                                 Frame(Taken(Top.e, ret[1])[1])>>
        /\ Top.pc = "branch" =>
              /\ stack' = Rest
              /\ ret' = ret

\* C1: a conditional calls its condition once and then only the branch the
\* condition's value selects; ifThen on a zero condition returns 0 and leaves
\* locals and heap as the condition left them.
C1_ShortCircuit == [](C1_OnlyTakenBranchOnStack) /\ [][C1_ConditionalStep]_vars

\* ifThen with a condition that writes a local and is zero: the store of the
\* branch has not happened
C1_Witness ==
    /\ status = "returned"
    /\ expr = IfThenExpr(SetLocalExpr(Var(0), Const(Zero)),
                         StoreExpr("I32", Const(Zero), Const(U32(258, 772))))
    /\ ret = <<Zero>>
    /\ locals[1] = U64(Zero, Zero)
    /\ heap = Pattern(4)

(***************************************************************************)
(* C2.  Grow-memory.  When growMemory(d) completes with d evaluated to n,  *)
(* the value returned is the heap's length L immediately before the        *)
(* append, the heap's length afterwards is the returned value + n, the     *)
(* bytes [L, L + n) are zero and the bytes below L are kept.               *)
(***************************************************************************)
C2_GrowStep ==
    (At("GrowMemoryExpr", "ext") /\ Completes) =>
        /\ ret' = <<Small(Len(heap))>>
        /\ Len(heap') = ret'[1].lo + ret[1].lo
        /\ \A i \in 1..Len(heap') : heap'[i] = IF i <= Len(heap) THEN heap[i] ELSE 0

\* C2: growMemory(d) returns the heap's length immediately before its append,
\* and the length afterwards is the returned value plus the value of d, the
\* new bytes being zero.
C2_GrowReturnsLengthBeforeAppend == [][C2_GrowStep]_vars

(***************************************************************************)
(* C3.  Store/load round trip.  A store(I32, a, v) with a + 4 <= heap      *)
(* length writes the bytes of v at a .. a + 3, least significant first,    *)
(* changes no other heap byte and no local, and returns v; decoding a u32  *)
(* at a from the heap it leaves gives v, and a load(I32, a) evaluated      *)
(* next, as the right sibling of the store, returns v.                     *)
(***************************************************************************)
C3_StoreStep ==
    (At("StoreExpr", "value") /\ Fits(Top.tmp, 4, Len(heap))) =>
        /\ Completes
        /\ ret' = ret
        /\ Len(heap') = Len(heap)
        /\ \A i \in 1..Len(heap) :
              heap'[i] = IF i - Top.tmp.lo \in 1..4 THEN Bytes(ret[1])[i - Top.tmp.lo]
                         ELSE heap[i]
        /\ locals' = locals
        /\ read_u32(heap', Top.tmp) = ret[1]

C3_LoadAfterStore ==
    (/\ BothDone("StoreExpr", "LoadExpr")
     /\ Top.e.rhs.typ = "I32"
     /\ Top.e.lhs.addr = Top.e.rhs.addr
     /\ Top.e.rhs.addr.kind = "ConstExpr")
        => ret = <<Top.tmp>>

\* C3: an in-bounds store(I32, a, v) writes v little-endian at a, changes
\* nothing else, returns v, and a load(I32, a) evaluated next returns v.
C3_StoreLoadRoundTrip == [](C3_LoadAfterStore) /\ [][C3_StoreStep]_vars

C3_Witness ==
    /\ BothDone("StoreExpr", "LoadExpr")
    /\ Top.e.lhs = StoreExpr("I32", Const(U32(0, 4)), Const(U32(258, 772)))
    /\ Top.e.rhs = LoadExpr("I32", Const(U32(0, 4)))
    /\ ret = <<U32(258, 772)>>
    /\ heap = <<17, 34, 51, 68, 4, 3, 2, 1>>

(***************************************************************************)
(* C4.  Write-local returns the value it stores.  writeLocal(i, e) with i  *)
(* in range and e evaluated to v returns v, leaves slot i holding v with   *)
(* the upper 32 bits clear, and changes no other slot; readLocal(i) of a   *)
(* slot holding the raw value b returns the lower 32 bits of b; and a      *)
(* readLocal(i) evaluated right after writeLocal(i, e), as its right       *)
(* sibling, returns v.                                                     *)
(***************************************************************************)
C4_SetLocalStep ==
    (At("SetLocalExpr", "value") /\ Top.e.var.position \in 0..(Len(locals) - 1)) =>
        /\ Completes
        /\ ret' = ret
        /\ Len(locals') = Len(locals)
        /\ \A j \in 1..Len(locals) :
              locals'[j] = IF j = Top.e.var.position + 1
                           THEN [upper |-> Zero, lower |-> ret[1]]
                           ELSE locals[j]
        /\ heap' = heap

C4_GetLocalStep ==
    (At("GetLocalExpr", "start") /\ Top.e.var.position \in 0..(Len(locals) - 1)) =>
        /\ Completes
        /\ ret' = <<locals[Top.e.var.position + 1].lower>>
        /\ UNCHANGED <<locals, heap>>

C4_ReadAfterWrite ==
    (BothDone("SetLocalExpr", "GetLocalExpr") /\ Top.e.lhs.var = Top.e.rhs.var)
        => ret = <<Top.tmp>>

\* C4: writeLocal(i, e) returns the value v of e and leaves slot i holding v
\* zero-extended; readLocal(i) returns the slot's lower 32 bits, so v again.
C4_WriteLocalReturnsStored ==
    [](C4_ReadAfterWrite) /\ [][C4_SetLocalStep /\ C4_GetLocalStep]_vars

C4_Witness ==
    /\ BothDone("SetLocalExpr", "GetLocalExpr")
    /\ Top.e.lhs = SetLocalExpr(Var(NumLocals - 1), Const(MinusOne))
    /\ Top.e.rhs = GetLocalExpr(Var(NumLocals - 1))
    /\ ret = <<MinusOne>>
    /\ locals[NumLocals] = U64(Zero, MinusOne)

(***************************************************************************)
(* C5.  binary(op, lhs, rhs) is total but for a zero divisor: applying any *)
(* of the 25 operators panics exactly when the operator is divU, divS,     *)
(* remU or remS and rhs is 0, and otherwise returns a 32-bit value.        *)
(***************************************************************************)
C5_BinOpStep ==
    At("BinOpExpr", "rhs") =>
        /\ ~Completes <=> (Top.e.op \in {"DivU", "DivS", "RemU", "RemS"} /\ ret[1] = Zero)
        /\ Completes => (Len(ret') = 1 /\ IsU32(ret'[1]))

\* C5: every binary operator returns a 32-bit value for every operand pair,
\* except that divU, divS, remU and remS panic on a zero divisor, and only then.
C5_TotalButDivisionByZero == [][C5_BinOpStep]_vars

(***************************************************************************)
(* C6.  Out-of-bounds access.  The access of a load(I32, a) or of a        *)
(* store(I32, a, v) panics exactly when a + 4 exceeds the heap's length at *)
(* the access, that is after the address and the value have been           *)
(* evaluated; a store that panics writes no heap byte.                     *)
(***************************************************************************)
C6_AccessStep ==
    /\ (At("LoadExpr", "addr") /\ Top.e.typ = "I32") =>
          /\ Completes <=> Fits(ret[1], 4, Len(heap))
          /\ ~Completes => status' = "out_of_bounds"
    /\ At("StoreExpr", "value") =>
          /\ Completes <=> Fits(Top.tmp, 4, Len(heap))
          /\ ~Completes => (status' = "out_of_bounds" /\ heap' = heap)

\* C6: the access of a load(I32, a) or store(I32, a, v) panics exactly when
\* a + 4 exceeds the heap's length at the access; a store that panics writes
\* nothing.
C6_OutOfBoundsIsFatal == [][C6_AccessStep]_vars

\* a store at offset 4 of a 4-byte heap whose value expression grows the
\* heap by 4: the store has gone through
C6_Witness ==
    /\ status = "returned"
    /\ expr = StoreExpr("I32", Const(U32(0, 4)), GrowMemoryExpr(Const(U32(0, 4))))
    /\ heap = <<17, 34, 51, 68, 4, 0, 0, 0>>
    /\ ret = <<U32(0, 4)>>

(***************************************************************************)
(* C7.  Representation mismatch.  In the 32-bit-integer lane a constant    *)
(* of kind F32, F64 or I64 panics with a type error and returns nothing;   *)
(* a constant of kind I32 with literal v returns v; neither changes        *)
(* locals or heap.                                                         *)
(***************************************************************************)
C7_ConstStep ==
    At("ConstExpr", "start") =>
        /\ UNCHANGED <<locals, heap>>
        /\ Top.e.const.tag \in {"F32Const", "F64Const", "I64Const"} =>
              /\ status' = "type_error"
              /\ UNCHANGED <<stack, ret>>
        /\ Top.e.const.tag = "I32Const" =>
              /\ Completes
              /\ stack' = Rest
              /\ ret' = <<Top.e.const.value>>

C7_Returned ==
    (expr.kind = "ConstExpr" /\ expr.const.tag # "I32Const") => status # "returned"

\* C7: a constant of kind F32, F64 or I64 panics with a type error in the
\* 32-bit-integer lane and never returns; a constant of kind I32 returns its
\* literal; locals and heap are untouched.
C7_MismatchIsFatal == [](C7_Returned) /\ [][C7_ConstStep]_vars

C7_Witness ==
    /\ status = "type_error"
    /\ expr = ConstExpr(F32Const(One))
    /\ ret = <<>>

(***************************************************************************)
(* C8.  Wrapping arithmetic.  For all operands a, b: add returns           *)
(* (a + b) mod 2^32, mul returns (a * b) mod 2^32, and sub returns the     *)
(* 32-bit r with (r + b) mod 2^32 = a, that is (a - b) mod 2^32; none of   *)
(* the three panics.  The sums and products are computed exactly.          *)
(***************************************************************************)
C8_ArithStep ==
    (At("BinOpExpr", "rhs") /\ Top.e.op \in {"Add", "Sub", "Mul"}) =>
        /\ Completes
        /\ Len(ret') = 1
        /\ IsU32(ret'[1])
        /\ Top.e.op = "Add" =>
              Bytes(ret'[1]) = Mod2p32(NatAdd(Bytes(Top.tmp), Bytes(ret[1]), 0))
        /\ Top.e.op = "Mul" =>
              Bytes(ret'[1]) = Mod2p32(NatMul(Bytes(Top.tmp), Bytes(ret[1])))
        /\ Top.e.op = "Sub" =>
              Mod2p32(NatAdd(Bytes(ret'[1]), Bytes(ret[1]), 0)) = Bytes(Top.tmp)

\* C8: add, sub and mul return the exact sum, difference and product modulo
\* 2^32 and never panic.
C8_WrappingArithmetic == [][C8_ArithStep]_vars

\* 0xFFFFFFFF + 1 has wrapped to 0
C8_Witness ==
    /\ status = "returned"
    /\ expr = BinOpExpr("I32", "Add", Const(MinusOne), Const(One))
    /\ ret = <<Zero>>

(***************************************************************************)
(* C9.  Operand order.  A binary operation calls its left operand first    *)
(* and its right operand only when the left one has returned; a store      *)
(* calls its address first and its value only when the address has         *)
(* returned; the value an activation has saved is not touched while its    *)
(* next operand runs.  Hence add(writeLocal(i, e), readLocal(i)) returns   *)
(* 2 * v mod 2^32 for the value v of e, and add(readLocal(i),              *)
(* writeLocal(i, e)) returns the slot's old lower 32 bits plus v.          *)
(***************************************************************************)
C9_OperandOnStack ==
    \A i \in 1..(Len(stack) - 1) :
        /\ stack[i].e.kind = "BinOpExpr" =>
              /\ stack[i].pc \in {"lhs", "rhs"}
              /\ stack[i + 1].e = IF stack[i].pc = "lhs" THEN stack[i].e.lhs ELSE stack[i].e.rhs
        /\ stack[i].e.kind = "StoreExpr" =>
              /\ stack[i].pc \in {"addr", "value"}
              /\ stack[i + 1].e = IF stack[i].pc = "addr" THEN stack[i].e.addr
                                  ELSE stack[i].e.value

\* what the left operand returned is what readLocal saw before the write
C9_ReadBeforeWrite ==
    (/\ At("BinOpExpr", "lhs")
     /\ Top.e.lhs.kind = "GetLocalExpr"
     /\ Top.e.rhs.kind = "SetLocalExpr"
     /\ Top.e.lhs.var = Top.e.rhs.var)
        => ret = <<locals[Top.e.lhs.var.position + 1].lower>>

C9_OrderStep ==
    /\ \A i \in 1..(Len(stack) - 1) : i \in DOMAIN stack' /\ stack'[i] = stack[i]
    /\ At("BinOpExpr", "lhs") =>
          stack' = Rest \o <<[Top EXCEPT !.pc = "rhs", !.tmp = ret[1]], Frame(Top.e.rhs)>>
    /\ At("StoreExpr", "addr") =>
          stack' = Rest \o <<[Top EXCEPT !.pc = "value", !.tmp = ret[1]], Frame(Top.e.value)>>
    /\ (/\ BothDone("SetLocalExpr", "GetLocalExpr")
        /\ Top.e.op = "Add"
        /\ Top.e.lhs.var = Top.e.rhs.var
        /\ Top.e.lhs.value.kind = "ConstExpr") =>
          Bytes(ret'[1]) = Mod2p32(NatMulDigit(Bytes(Top.e.lhs.value.const.value), 2, 0))
    /\ (/\ BothDone("GetLocalExpr", "SetLocalExpr")
        /\ Top.e.op = "Add"
        /\ Top.e.lhs.var = Top.e.rhs.var
        /\ Top.e.rhs.value.kind = "ConstExpr") =>
          Bytes(ret'[1]) =
              Mod2p32(NatAdd(Bytes(Top.tmp), Bytes(Top.e.rhs.value.const.value), 0))

\* C9: the left operand of a binary operation (the address of a store) has
\* returned, with its effects applied, before the right operand (the value)
\* is called.
C9_EvaluationOrder ==
    [](C9_OperandOnStack /\ C9_ReadBeforeWrite) /\ [][C9_OrderStep]_vars

\* add(writeLocal(0, 0xFFFFFFFF), readLocal(0)) has returned 0xFFFFFFFE
C9_Witness ==
    /\ status = "returned"
    /\ expr = BinOpExpr("I32", "Add", SetLocalExpr(Var(0), Const(MinusOne)),
                        GetLocalExpr(Var(0)))
    /\ ret = <<U32(Half - 1, Half - 2)>>

(***************************************************************************)
(* C10.  The heap never shrinks and only the append of a grow-memory node  *)
(* changes its length; the number of local slots never changes; and while  *)
(* an activation of a node built only from constants, read-local, no-op,   *)
(* load, unary and binary operations is on the stack, no heap byte and no  *)
(* local slot changes.                                                     *)
(***************************************************************************)
C10_FrameStep ==
    /\ Len(heap') >= Len(heap)
    /\ Len(heap') # Len(heap) => At("GrowMemoryExpr", "ext")
    /\ Len(locals') = Len(locals)
    /\ (\E i \in 1..Len(stack) : Pure(stack[i].e)) => UNCHANGED <<locals, heap>>

\* C10: no step shortens the heap, only the append of grow-memory changes its
\* length, the number of local slots is constant, and nodes without
\* write-local, store, grow and conditionals change no heap byte and no slot.
C10_HeapNeverShrinks == [][C10_FrameStep]_vars

\* a heap of 8 bytes that grew by 4
C10_Witness ==
    /\ status = "returned"
    /\ expr = GrowMemoryExpr(Const(U32(0, 4)))
    /\ ret = <<U32(0, 8)>>
    /\ Len(heap) = 12
    /\ Len(locals) = NumLocals

=============================================================================
